---- MODULE Spec2Model ----
(***************************************************************************)
(* Model of sL_health_check.py: one run of the script.  The main block     *)
(* calls check_network_health(TARGET_HOST) once; the routine announces the *)
(* check, builds the ping argument vector for the platform, runs the child *)
(* process with subprocess.run(capture_output, text, check), scans the     *)
(* captured standard output with a regular expression and returns a pair   *)
(* (is_healthy, avg_latency_ms); the main block prints the report.         *)
(*                                                                         *)
(* Text is a sequence of one-character strings.  The child's output is     *)
(* kept as the sequence of chunks it wrote; result.stdout is their         *)
(* concatenation.                                                          *)
(***************************************************************************)
EXTENDS Integers, Sequences, FiniteSets, TLC

VARIABLES pc, system, command, stdout, stderr, returncode, exception,
          is_healthy, avg_latency_ms, console, exitStatus, runCalls, spawned,
          checkCalls

\* pc             where the run is: main, select, run, child, parse, raised,
\*                returned, exit
\* system         platform.system() of the machine (line 27)
\* command        the argument vector (lines 28, 30)
\* stdout, stderr the chunks the child wrote to each captured pipe
\* returncode     the child's exit status, None while there is none
\* exception      the class raised inside the try block, if any
\* is_healthy, avg_latency_ms   the pair the routine returned (line 68)
\* console        the lines printed so far
\* exitStatus     the interpreter's exit status, None while running
\* runCalls       invocations of subprocess.run (line 34)
\* spawned        ping processes that actually started
\* checkCalls     calls of check_network_health (line 68)
vars == <<pc, system, command, stdout, stderr, returncode, exception,
          is_healthy, avg_latency_ms, console, exitStatus, runCalls, spawned,
          checkCalls>>

(* ---------------------------- bounds ---------------------------------- *)
\* chunks the child may write to its standard output / standard error
MaxChunks == 4
MaxErrChunks == 1

(* ---------------------------- values ---------------------------------- *)
\* Python's None for the Optional[int] latency and for "not set yet"
None == -1
NoException == "NoException"

TARGET_HOST == <<"8", ".", "8", ".", "8", ".", "8">>

\* values platform.system() can return
Platforms ==
    { <<"W","i","n","d","o","w","s">>,
      <<"L","i","n","u","x">>,
      <<"D","a","r","w","i","n">> }

\* exit statuses of the ping child
ExitCodes == {0, 1}

\* what the child may write in one chunk
Chunks ==
    { <<"A","v","e","r","a","g","e">>,
      <<" ">>,
      <<"=">>,
      <<"5">>,
      <<"m","s">>,
      <<"A","V","E","R","A","G","E","\n","="," ","0","M","S">>,
      <<"a","v","e","r","a","g","e","=","7","0","m","S">> }

\* what the child may write to its standard error in one chunk
ErrChunks ==
    { <<"a","v","e","r","a","g","e","=","7","0","m","S">> }

(* ------------------------- text helpers ------------------------------- *)
UpperToLower ==
    [c \in {"A","B","C","D","E","F","G","H","I","J","K","L","M","N","O","P",
            "Q","R","S","T","U","V","W","X","Y","Z"} |->
        CASE c = "A" -> "a" [] c = "B" -> "b" [] c = "C" -> "c" [] c = "D" -> "d"
          [] c = "E" -> "e" [] c = "F" -> "f" [] c = "G" -> "g" [] c = "H" -> "h"
          [] c = "I" -> "i" [] c = "J" -> "j" [] c = "K" -> "k" [] c = "L" -> "l"
          [] c = "M" -> "m" [] c = "N" -> "n" [] c = "O" -> "o" [] c = "P" -> "p"
          [] c = "Q" -> "q" [] c = "R" -> "r" [] c = "S" -> "s" [] c = "T" -> "t"
          [] c = "U" -> "u" [] c = "V" -> "v" [] c = "W" -> "w" [] c = "X" -> "x"
          [] c = "Y" -> "y" [] c = "Z" -> "z"]

\* str.lower() on one character, and on a string
LowerChar(c) == IF c \in DOMAIN UpperToLower THEN UpperToLower[c] ELSE c

Lower(s) == [i \in 1..Len(s) |-> LowerChar(s[i])]

\* concatenation of the chunks written to a pipe: the captured text
RECURSIVE Flatten(_)
Flatten(chunks) ==
    IF chunks = <<>> THEN <<>> ELSE Head(chunks) \o Flatten(Tail(chunks))

(* ------------------ re.search(r'Average\s*=\s*(\d+)ms') --------------- *)
\* \s
IsSpace(c) == c \in {" ", "\n", "\t", "\r"}

\* \d
IsDigit(c) == c \in {"0","1","2","3","4","5","6","7","8","9"}

DigitValue(c) ==
    CASE c = "0" -> 0 [] c = "1" -> 1 [] c = "2" -> 2 [] c = "3" -> 3
      [] c = "4" -> 4 [] c = "5" -> 5 [] c = "6" -> 6 [] c = "7" -> 7
      [] c = "8" -> 8 [] c = "9" -> 9

\* int(): decimal digits to a number
RECURSIVE ToInt(_)
ToInt(digits) ==
    IF digits = <<>> THEN 0
    ELSE 10 * ToInt(SubSeq(digits, 1, Len(digits) - 1))
         + DigitValue(digits[Len(digits)])

\* a literal of the pattern at position i of t, under re.IGNORECASE
LiteralAt(t, i, lit) ==
    /\ i + Len(lit) - 1 <= Len(t)
    /\ \A k \in 1..Len(lit) : LowerChar(t[i + k - 1]) = LowerChar(lit[k])

\* \s* from position i: the position after the whitespace run (greedy)
RECURSIVE SkipSpace(_, _)
SkipSpace(t, i) ==
    IF i <= Len(t) /\ IsSpace(t[i]) THEN SkipSpace(t, i + 1) ELSE i

\* \d* from position i: the position after the digit run (greedy)
RECURSIVE SkipDigits(_, _)
SkipDigits(t, i) ==
    IF i <= Len(t) /\ IsDigit(t[i]) THEN SkipDigits(t, i + 1) ELSE i

\* the pattern anchored at position i: group 1 as <<first, last>> or <<>>.
\* Neither "=" is whitespace nor "m" a digit, so the greedy runs never
\* have to give a character back.
MatchAt(t, i) ==
    IF ~LiteralAt(t, i, <<"A","v","e","r","a","g","e">>) THEN <<>>
    ELSE LET eq == SkipSpace(t, i + 7) IN
         IF ~LiteralAt(t, eq, <<"=">>) THEN <<>>
         ELSE LET d1 == SkipSpace(t, eq + 1)
                  d2 == SkipDigits(t, d1)
              IN  IF d2 > d1 /\ LiteralAt(t, d2, <<"m","s">>)
                  THEN <<d1, d2 - 1>>
                  ELSE <<>>

\* variant: the last match is taken instead of the first
Search_LastMatch(t) ==
    LET starts == {i \in 1..Len(t) : MatchAt(t, i) # <<>>} IN
    IF starts = {} THEN <<>>
    ELSE LET i == CHOOSE s \in starts : \A o \in starts : s >= o
             g == MatchAt(t, i)
         IN  SubSeq(t, g[1], g[2])

\* re.search: the match at the leftmost position that has one, else None;
\* the value is group(1)
Search(t) ==
    LET starts == {i \in 1..Len(t) : MatchAt(t, i) # <<>>} IN
    IF starts = {} THEN <<>>
    ELSE LET i == CHOOSE s \in starts : \A o \in starts : s <= o
             g == MatchAt(t, i)
         IN  SubSeq(t, g[1], g[2])

(* ------------------------- command vector ----------------------------- *)
\* variant: the platform name is compared without lower()
Command_CaseSensitive(sys, host) ==
    IF sys = <<"w","i","n","d","o","w","s">>
    THEN << <<"p","i","n","g">>, <<"-","n">>, <<"1">>, host >>
    ELSE << <<"p","i","n","g">>, <<"-","c">>, <<"1">>, host >>

\* lines 27-30
Command(sys, host) ==
    IF Lower(sys) = <<"w","i","n","d","o","w","s">>
    THEN << <<"p","i","n","g">>, <<"-","n">>, <<"1">>, host >>
    ELSE << <<"p","i","n","g">>, <<"-","c">>, <<"1">>, host >>

(* ------------------------ exception classes --------------------------- *)
\* base class of each exception class that occurs
Base(cls) ==
    CASE cls = "FileNotFoundError"  -> "OSError"
      [] cls = "PermissionError"    -> "OSError"
      [] cls = "OSError"            -> "Exception"
      [] cls = "CalledProcessError" -> "SubprocessError"
      [] cls = "SubprocessError"    -> "Exception"
      [] cls = "UnicodeDecodeError" -> "ValueError"
      [] cls = "ValueError"         -> "Exception"
      [] cls = "Exception"          -> "BaseException"
      [] OTHER                      -> "object"

RECURSIVE IsInstance(_, _)
IsInstance(cls, of) ==
    \/ cls = of
    \/ cls # "object" /\ IsInstance(Base(cls), of)

\* variant: no catch-all clause
ExceptClauses_NoCatchAll == <<"FileNotFoundError", "CalledProcessError">>

\* variant: the catch-all clause comes first
ExceptClauses_CatchAllFirst == <<"Exception", "FileNotFoundError", "CalledProcessError">>

\* the except clauses of the try statement, in order (lines 55, 58, 61)
ExceptClauses == <<"FileNotFoundError", "CalledProcessError", "Exception">>

NoClause == "NoClause"

\* the first clause that catches cls, NoClause if none does
Handler(cls) ==
    LET hits == {k \in 1..Len(ExceptClauses) : IsInstance(cls, ExceptClauses[k])}
    IN  IF hits = {} THEN NoClause
        ELSE ExceptClauses[CHOOSE k \in hits : \A o \in hits : k <= o]

\* exceptions subprocess.run raises before any child runs, other than
\* the executable missing
SpawnErrors == {"PermissionError"}

(* --------------------------- console ---------------------------------- *)
Line(text, arg) == [text |-> text, arg |-> arg]

ANNOUNCE_1 == "Initiating Network Vibe Check at"
ANNOUNCE_2 == "Pinging target host:"
MSG_NOT_FOUND == "Error: Ping command not found."
MSG_UNEXPECTED == "An unexpected error occurred:"
MSG_OPTIMAL_LATENCY == "Network Health: Optimal! Latency:"
MSG_BLAZING == "Vibe Status: Blazing fast connectivity achieved."
MSG_STABLE == "Vibe Status: Stable connectivity achieved."
MSG_OPTIMAL_NODATA == "Network Health: Optimal! (Latency data not found"
MSG_SEAMLESS == "Vibe Status: Seamless connectivity achieved."
MSG_UNREACHABLE == "Network Warning: Host Unreachable."
MSG_INVESTIGATE == "Vibe Status: Investigate system or Wi-Fi setup immediately"

(* ----------------------------- Init ----------------------------------- *)
Init ==
    /\ pc = "main"
    /\ system \in Platforms
    /\ command = <<>>
    /\ stdout = <<>>
    /\ stderr = <<>>
    /\ returncode = None
    /\ exception = NoException
    /\ is_healthy = FALSE
    /\ avg_latency_ms = None
    /\ console = <<>>
    /\ exitStatus = None
    /\ runCalls = 0
    /\ spawned = 0
    /\ checkCalls = 0

(* ---------------------------- actions --------------------------------- *)
\* line 68 enters the routine; lines 23-24 announce the check
CallCheck ==
    /\ pc = "main"
    /\ checkCalls' = checkCalls + 1
    /\ console' = console \o << Line(ANNOUNCE_1, "now"), Line(ANNOUNCE_2, TARGET_HOST) >>
    /\ pc' = "select"
    /\ UNCHANGED <<system, command, stdout, stderr, returncode, exception,
                   is_healthy, avg_latency_ms, exitStatus, runCalls, spawned>>

\* lines 27-30
SelectCommand ==
    /\ pc = "select"
    /\ command' = Command(system, TARGET_HOST)
    /\ pc' = "run"
    /\ UNCHANGED <<system, stdout, stderr, returncode, exception,
                   is_healthy, avg_latency_ms, console, exitStatus, runCalls, spawned, checkCalls>>

\* line 34, the executable is not on the search path
RunNotFound ==
    /\ pc = "run"
    /\ runCalls' = runCalls + 1
    /\ exception' = "FileNotFoundError"
    /\ pc' = "raised"
    /\ UNCHANGED <<system, command, stdout, stderr, returncode,
                   is_healthy, avg_latency_ms, console, exitStatus, spawned, checkCalls>>

\* line 34, the child cannot be started for another reason
RunSpawnError ==
    /\ pc = "run"
    /\ runCalls' = runCalls + 1
    /\ \E e \in SpawnErrors : exception' = e
    /\ pc' = "raised"
    /\ UNCHANGED <<system, command, stdout, stderr, returncode,
                   is_healthy, avg_latency_ms, console, exitStatus, spawned, checkCalls>>

\* line 34, the child starts; subprocess.run waits for it
RunStarts ==
    /\ pc = "run"
    /\ runCalls' = runCalls + 1
    /\ spawned' = spawned + 1
    /\ pc' = "child"
    /\ UNCHANGED <<system, command, stdout, stderr, returncode, exception,
                   is_healthy, avg_latency_ms, console, exitStatus, checkCalls>>

\* the child writes to its standard output (captured, line 36)
ChildWritesStdout ==
    /\ pc = "child"
    /\ Len(stdout) < MaxChunks
    /\ \E c \in Chunks : stdout' = Append(stdout, c)
    /\ UNCHANGED <<pc, system, command, stderr, returncode, exception,
                   is_healthy, avg_latency_ms, console, exitStatus, runCalls, spawned, checkCalls>>

\* the child writes to its standard error (captured separately, line 36)
ChildWritesStderr ==
    /\ pc = "child"
    /\ Len(stderr) < MaxErrChunks
    /\ \E c \in ErrChunks : stderr' = Append(stderr, c)
    /\ UNCHANGED <<pc, system, command, stdout, returncode, exception,
                   is_healthy, avg_latency_ms, console, exitStatus, runCalls, spawned, checkCalls>>

\* the child exits; with check=True a non-zero status raises
\* CalledProcessError (line 38), status zero returns the result object
ChildExits ==
    /\ pc = "child"
    /\ \E code \in ExitCodes :
          /\ returncode' = code
          /\ IF code # 0
             THEN exception' = "CalledProcessError" /\ pc' = "raised"
             ELSE exception' = exception /\ pc' = "parse"
    /\ UNCHANGED <<system, command, stdout, stderr,
                   is_healthy, avg_latency_ms, console, exitStatus, runCalls, spawned, checkCalls>>

\* variant: the health flag is computed from the wrong comparison
ParseResult_InvertedFlag(code, out) ==
    LET group1 == Search(out) IN
    IF group1 # <<>> THEN <<code # 0, ToInt(group1)>> ELSE <<TRUE, None>>

\* variant: a missing latency figure is treated as a failure
ParseResult_NoMatchFails(code, out) ==
    IF code = 0
    THEN LET group1 == Search(out) IN
         IF group1 # <<>> THEN <<TRUE, ToInt(group1)>> ELSE <<FALSE, None>>
    ELSE <<FALSE, None>>

\* lines 41-53: the scan of result.stdout and the return
ParseResult(code, out) ==
    IF code = 0
    THEN LET group1 == Search(out) IN
         IF group1 # <<>> THEN <<TRUE, ToInt(group1)>> ELSE <<TRUE, None>>
    ELSE <<FALSE, None>>

Parse ==
    /\ pc = "parse"
    /\ LET r == ParseResult(returncode, Flatten(stdout)) IN
          /\ is_healthy' = r[1]
          /\ avg_latency_ms' = r[2]
    /\ pc' = "returned"
    /\ UNCHANGED <<system, command, stdout, stderr, returncode, exception,
                   console, exitStatus, runCalls, spawned, checkCalls>>

\* lines 55-63: what each except clause prints
HandlerOutput(cls) ==
    CASE Handler(cls) = "FileNotFoundError"  -> << Line(MSG_NOT_FOUND, None) >>
      [] Handler(cls) = "CalledProcessError" -> << >>
      [] Handler(cls) = "Exception"          -> << Line(MSG_UNEXPECTED, cls) >>
      [] OTHER                               -> << >>

\* variant: the CalledProcessError clause reports the host as healthy
HandlerResult_NonZeroHealthy(cls) ==
    CASE Handler(cls) = "FileNotFoundError"  -> <<FALSE, None>>
      [] Handler(cls) = "CalledProcessError" -> <<TRUE, None>>
      [] Handler(cls) = "Exception"          -> <<FALSE, None>>

\* lines 57, 60, 63: what each except clause returns
HandlerResult(cls) ==
    CASE Handler(cls) = "FileNotFoundError"  -> <<FALSE, None>>
      [] Handler(cls) = "CalledProcessError" -> <<FALSE, None>>
      [] Handler(cls) = "Exception"          -> <<FALSE, None>>

\* variant: a failed probe is tried again
HandleException_Retry ==
    /\ pc = "raised"
    /\ IF runCalls < 2
       THEN /\ pc' = "run"
            /\ UNCHANGED <<is_healthy, avg_latency_ms, console, exitStatus>>
       ELSE /\ console' = console \o HandlerOutput(exception)
            /\ is_healthy' = FALSE
            /\ avg_latency_ms' = None
            /\ pc' = "returned"
            /\ UNCHANGED exitStatus
    /\ UNCHANGED <<system, command, stdout, stderr, returncode, exception,
                   runCalls, spawned, checkCalls>>

\* lines 55-63; an exception no clause catches leaves the routine and
\* ends the program with the interpreter's failure status
HandleException ==
    /\ pc = "raised"
    /\ IF Handler(exception) = NoClause
       THEN /\ pc' = "exit"
            /\ exitStatus' = 1
            /\ UNCHANGED <<is_healthy, avg_latency_ms, console>>
       ELSE /\ console' = console \o HandlerOutput(exception)
            /\ is_healthy' = HandlerResult(exception)[1]
            /\ avg_latency_ms' = HandlerResult(exception)[2]
            /\ pc' = "returned"
            /\ UNCHANGED exitStatus
    /\ UNCHANGED <<system, command, stdout, stderr, returncode, exception,
                   runCalls, spawned, checkCalls>>

\* variant: the latency is tested for truth instead of against None
Report_Truthiness(healthy, latency) ==
    IF healthy
    THEN IF latency # None /\ latency # 0
         THEN << Line(MSG_OPTIMAL_LATENCY, latency),
                 Line(IF latency < 50 THEN MSG_BLAZING ELSE MSG_STABLE, None) >>
         ELSE << Line(MSG_OPTIMAL_NODATA, None), Line(MSG_SEAMLESS, None) >>
    ELSE << Line(MSG_UNREACHABLE, None), Line(MSG_INVESTIGATE, None) >>

\* lines 70-87: the lines the main block prints for a result
Report(healthy, latency) ==
    IF healthy
    THEN IF latency # None
         THEN << Line(MSG_OPTIMAL_LATENCY, latency),
                 Line(IF latency < 50 THEN MSG_BLAZING ELSE MSG_STABLE, None) >>
         ELSE << Line(MSG_OPTIMAL_NODATA, None), Line(MSG_SEAMLESS, None) >>
    ELSE << Line(MSG_UNREACHABLE, None), Line(MSG_INVESTIGATE, None) >>

\* variant: the health state is mapped to the exit status
MainReport_ExitCode ==
    /\ pc = "returned"
    /\ console' = console \o Report(is_healthy, avg_latency_ms)
    /\ exitStatus' = IF is_healthy THEN 0 ELSE 1
    /\ pc' = "exit"
    /\ UNCHANGED <<system, command, stdout, stderr, returncode, exception,
                   is_healthy, avg_latency_ms, runCalls, spawned, checkCalls>>

\* lines 70-87, then the script ends normally
MainReport ==
    /\ pc = "returned"
    /\ console' = console \o Report(is_healthy, avg_latency_ms)
    /\ exitStatus' = 0
    /\ pc' = "exit"
    /\ UNCHANGED <<system, command, stdout, stderr, returncode, exception,
                   is_healthy, avg_latency_ms, runCalls, spawned, checkCalls>>

Next ==
    \/ CallCheck
    \/ SelectCommand
    \/ RunNotFound
    \/ RunSpawnError
    \/ RunStarts
    \/ ChildWritesStdout
    \/ ChildWritesStderr
    \/ ChildExits
    \/ Parse
    \/ HandleException
    \/ MainReport

Spec == Init /\ [][Next]_vars

TypeOK ==
    /\ pc \in {"main", "select", "run", "child", "parse", "raised", "returned", "exit"}
    /\ is_healthy \in BOOLEAN
    /\ avg_latency_ms \in Int
    /\ runCalls \in Nat
    /\ spawned \in Nat

(* ===================================================================== *)
(* Properties                                                            *)
(* ===================================================================== *)
\* the routine has returned to the main block (the program may have ended)
Returned == pc \in {"returned", "exit"} /\ exitStatus # 1

\* the texts of the console lines printed so far
Printed == {console[k].text : k \in DOMAIN console}

\* the result triple of the data model
Unreachable == ~is_healthy /\ avg_latency_ms = None

\* result.stdout as the routine sees it
CapturedStdout == Flatten(stdout)

\* A well-formed "Average = Nms" token of t, stated by positions: the word
\* starts at i, "=" is at e, the first digit at d and "ms" at m, with
\* nothing but whitespace between the word, "=" and the digits, and
\* nothing but digits from d up to "ms".
WordStarts(t) ==
    {i \in 1..(Len(t) - 6) :
        \A k \in 1..7 :
            LowerChar(t[i + k - 1]) = <<"a","v","e","r","a","g","e">>[k]}

EqualsAfter(t, i) ==
    {e \in (i + 7)..Len(t) :
        t[e] = "=" /\ \A k \in (i + 7)..(e - 1) : IsSpace(t[k])}

DigitsAfter(t, e) ==
    {d \in (e + 1)..Len(t) :
        IsDigit(t[d]) /\ \A k \in (e + 1)..(d - 1) : IsSpace(t[k])}

UnitAfter(t, d) ==
    {m \in (d + 1)..(Len(t) - 1) :
        /\ LowerChar(t[m]) = "m"
        /\ LowerChar(t[m + 1]) = "s"
        /\ \A k \in d..(m - 1) : IsDigit(t[k])}

\* the positions <<i, d, m>> of the tokens of t
Tokens(t) ==
    UNION { UNION { UNION { { <<i, d, m>> : m \in UnitAfter(t, d) }
                            : d \in DigitsAfter(t, e) }
                    : e \in EqualsAfter(t, i) }
            : i \in WordStarts(t) }

RECURSIVE Pow10(_)
Pow10(n) == IF n = 0 THEN 1 ELSE 10 * Pow10(n - 1)

\* the number a digit string denotes: the sum of digit * 10^place
RECURSIVE Decimal(_)
Decimal(ds) ==
    IF ds = <<>> THEN 0
    ELSE DigitValue(Head(ds)) * Pow10(Len(ds) - 1) + Decimal(Tail(ds))

\* N of the token at p
TokenValue(t, p) == Decimal(SubSeq(t, p[2], p[3] - 1))

\* the tokens no other token starts before
FirstTokens(t) ==
    LET all == Tokens(t) IN {p \in all : \A q \in all : p[1] <= q[1]}

\* C1 (as amended): whatever the probe does, the routine returns a result
\* and nothing propagates to the caller; every failure class is downgraded
\* to (reachable = false, latency absent); the routine prints the "not
\* found" message for a missing executable, the "unexpected error" message
\* for any other exception, and no message of its own for a non-zero exit.
C1_FailuresAbsorbed ==
    /\ exitStatus # 1
    /\ (pc = "returned" /\ exception # NoException) =>
          /\ Unreachable
          /\ (MSG_NOT_FOUND \in Printed) <=> (exception = "FileNotFoundError")
          /\ (MSG_UNEXPECTED \in Printed) <=>
                (exception \notin {"FileNotFoundError", "CalledProcessError"})
          /\ (exception = "CalledProcessError") => Len(console) = 2

\* C1 as stated: every failure class returns (false, absent) and the
\* routine has emitted an operator message for it when it returns.
C1_AsStated ==
    /\ exitStatus # 1
    /\ (pc = "returned" /\ exception # NoException) =>
          /\ Unreachable
          /\ Printed \cap {MSG_NOT_FOUND, MSG_UNEXPECTED} # {}

C1_Witness ==
    /\ pc = "returned"
    /\ exception = "CalledProcessError"
    /\ Unreachable
    /\ Len(console) = 2

\* C2: every returned result is (true, N) with N >= 0, (true, absent) or
\* (false, absent); a latency is never present with reachable = false.
C2_ThreeOutcomes ==
    Returned =>
        \/ is_healthy /\ avg_latency_ms \in Nat
        \/ is_healthy /\ avg_latency_ms = None
        \/ ~is_healthy /\ avg_latency_ms = None

C2_Witness ==
    /\ pc = "returned"
    /\ is_healthy
    /\ avg_latency_ms = 70

\* C3: a probe that starts and exits with a non-zero status yields
\* (false, absent) whatever it wrote, a well-formed token included.
C3_NonZeroExit ==
    (Returned /\ spawned = 1 /\ returncode \in ExitCodes \ {0}) => Unreachable

C3_Witness ==
    /\ pc = "returned"
    /\ returncode = 1
    /\ Tokens(CapturedStdout) # {}
    /\ Unreachable

\* C4: a probe that exits with status zero and whose captured standard
\* output contains a well-formed token yields reachable = true and the
\* latency N of the first token, exactly.
C4_FirstTokenLatency ==
    (pc = "returned" /\ returncode = 0) =>
        LET t == CapturedStdout IN
        \A p \in FirstTokens(t) :
            is_healthy /\ avg_latency_ms = TokenValue(t, p)

C4_Witness ==
    /\ pc = "returned"
    /\ returncode = 0
    /\ LET t == CapturedStdout IN
       \E p, q \in Tokens(t) :
          /\ p[1] < q[1]
          /\ TokenValue(t, p) # TokenValue(t, q)
          /\ avg_latency_ms = TokenValue(t, p)

\* the position of the first console line with the given text, 0 if none
LineOf(text) ==
    LET at == {k \in DOMAIN console : console[k].text = text} IN
    IF at = {} THEN 0 ELSE CHOOSE k \in at : \A o \in at : k <= o

\* C5 (as amended): when the executable is not found the result is
\* (false, absent) and the routine prints the distinct "not found"
\* diagnostic, and neither the "unexpected error" nor the generic warning,
\* before it returns; the main block then prints the generic "Host
\* Unreachable" warning after it, so the finished run shows both.
C5_NotFoundDiagnostic ==
    /\ (MSG_NOT_FOUND \in Printed) => (exception = "FileNotFoundError")
    /\ (Returned /\ exception = "FileNotFoundError") =>
          /\ Unreachable
          /\ MSG_NOT_FOUND \in Printed
          /\ MSG_UNEXPECTED \notin Printed
          /\ (pc = "returned") => (MSG_UNREACHABLE \notin Printed)
          /\ (pc = "exit") => (LineOf(MSG_UNREACHABLE) > LineOf(MSG_NOT_FOUND))

\* C5 as stated: for the whole run the operator sees the "not found"
\* diagnostic and not the generic unreachable-host diagnostic.
C5_AsStated ==
    (Returned /\ exception = "FileNotFoundError") =>
        /\ Unreachable
        /\ MSG_NOT_FOUND \in Printed
        /\ MSG_UNREACHABLE \notin Printed

C5_Witness ==
    /\ pc = "exit"
    /\ exception = "FileNotFoundError"
    /\ MSG_NOT_FOUND \in Printed
    /\ MSG_UNREACHABLE \in Printed

\* C6: a probe that exits with status zero and whose captured text holds
\* no token (the empty text included) yields reachable = true with the
\* latency absent, and the routine prints no error message on this path.
C6_NoTokenNoLatency ==
    (pc = "returned" /\ returncode = 0 /\ Tokens(CapturedStdout) = {}) =>
        /\ is_healthy
        /\ avg_latency_ms = None
        /\ Printed = {ANNOUNCE_1, ANNOUNCE_2}

C6_Witness ==
    /\ pc = "returned"
    /\ returncode = 0
    /\ stdout \in {<<>>, << <<"A","v","e","r","a","g","e">>, <<"=">>, <<"5">>, <<" ">> >>}
    /\ stderr # <<>>
    /\ is_healthy
    /\ avg_latency_ms = None

\* the platform name reads "windows" when letter case is ignored
NamesWindows(sys) ==
    /\ Len(sys) = 7
    /\ \A k \in 1..7 : sys[k] \in { <<"w","i","n","d","o","w","s">>[k],
                                    <<"W","I","N","D","O","W","S">>[k] }

\* C7: the argument vector is [ping, -n, 1, host] on a platform that
\* identifies as Windows and [ping, -c, 1, host] on every other one; the
\* host is the last argument, unchanged.
C7_ArgumentVector ==
    (pc # "main" /\ pc # "select") =>
        /\ Len(command) = 4
        /\ command[1] = <<"p","i","n","g">>
        /\ command[2] = IF NamesWindows(system) THEN <<"-","n">> ELSE <<"-","c">>
        /\ command[3] = <<"1">>
        /\ command[4] = TARGET_HOST

C7_Witness ==
    /\ pc = "run"
    /\ system = <<"W","i","n","d","o","w","s">>
    /\ command[2] = <<"-","n">>

\* C8 (as amended): each call of the routine invokes subprocess.run exactly
\* once on every path, without a retry, and so spawns at most one external
\* process: one when the executable starts, none when it cannot be
\* started; the announcement lines are on the console before the
\* invocation; a run calls the routine at most once.
C8_SingleShot ==
    /\ checkCalls <= 1
    /\ runCalls <= 1
    /\ spawned <= runCalls
    /\ Returned => runCalls = 1
    /\ Returned =>
          (spawned = 0 <=> exception \in {"FileNotFoundError"} \cup SpawnErrors)
    /\ (runCalls > 0) =>
          /\ Len(console) >= 2
          /\ console[1].text = ANNOUNCE_1
          /\ console[2].text = ANNOUNCE_2

\* C8 as stated: exactly one external process is spawned on every path.
C8_AsStated ==
    /\ checkCalls <= 1
    /\ Returned => spawned = 1
    /\ (runCalls > 0) =>
          /\ Len(console) >= 2
          /\ console[1].text = ANNOUNCE_1
          /\ console[2].text = ANNOUNCE_2

C8_Witness ==
    /\ pc = "returned"
    /\ exception = "CalledProcessError"
    /\ runCalls = 1
    /\ spawned = 1

\* C9: the program ends with the normal successful exit status whatever
\* the probe outcome: with or without latency, unreachable, executable
\* missing, unexpected failure.
C9_ExitStatusZero ==
    /\ (pc = "exit") => (exitStatus = 0)
    /\ (pc # "exit") => (exitStatus = None)

C9_Witness ==
    /\ pc = "exit"
    /\ exitStatus = 0
    /\ exception = "PermissionError"
    /\ ~is_healthy

Headlines == {MSG_OPTIMAL_LATENCY, MSG_OPTIMAL_NODATA, MSG_UNREACHABLE}

VibeLines == {MSG_BLAZING, MSG_STABLE, MSG_SEAMLESS, MSG_INVESTIGATE}

\* C10: the main block prints exactly one headline, fixed by the result:
\* the latency report with N iff the result is (true, N), the "latency
\* data not found" report iff it is (true, absent), the "Host Unreachable"
\* warning iff reachable is false; with (true, N) the vibe line is
\* "Blazing fast" iff N < 50 and "Stable" iff N >= 50, N = 0 included.
C10_ReportMatchesResult ==
    (pc = "exit") =>
        /\ Cardinality({k \in DOMAIN console : console[k].text \in Headlines}) = 1
        /\ Cardinality({k \in DOMAIN console : console[k].text \in VibeLines}) = 1
        /\ (MSG_OPTIMAL_LATENCY \in Printed) <=> (is_healthy /\ avg_latency_ms >= 0)
        /\ (MSG_OPTIMAL_LATENCY \in Printed) =>
              console[LineOf(MSG_OPTIMAL_LATENCY)].arg = avg_latency_ms
        /\ (MSG_OPTIMAL_NODATA \in Printed) <=> (is_healthy /\ avg_latency_ms = None)
        /\ (MSG_UNREACHABLE \in Printed) <=> ~is_healthy
        /\ (MSG_BLAZING \in Printed) <=>
              (is_healthy /\ avg_latency_ms >= 0 /\ avg_latency_ms < 50)
        /\ (MSG_STABLE \in Printed) <=> (is_healthy /\ avg_latency_ms >= 50)

C10_Witness ==
    /\ pc = "exit"
    /\ is_healthy
    /\ avg_latency_ms = 0
    /\ MSG_OPTIMAL_LATENCY \in Printed
    /\ MSG_BLAZING \in Printed
====
